---- MODULE Spec2Model ----
(***************************************************************************)
(* The search orchestration of the media catalog browser: the App          *)
(* component of src/unnamed/part_000 (lines 129-349, the revision with an   *)
(* AbortController) and the mock-data App of src/src/App.tsx (Spec,         *)
(* SpecFetch, SpecDialog, SpecLive); the revision of part_000 without a     *)
(* controller (lines 478-676, SpecNoAbort); and the single-list revision    *)
(* of src/unnamed/part_001 (SpecSingle).  The sequence-number model of the  *)
(* design notes runs beside the code in seqCurrent and seqHeld.             *)
(*                                                                         *)
(* One action is one task of the browser's event loop: a user event with   *)
(* the render and the effects it causes, a timer callback, the arrival of  *)
(* a network response.  The continuation of fetchData after its await runs *)
(* as a microtask: it is the action RunMicrotask, and no task starts while *)
(* a microtask is queued.                                                  *)
(***************************************************************************)
EXTENDS Integers, Sequences, FiniteSets, TLC

\* ---------------------------------------------------------------- bounds
\* Fetch cycles started in one run.
MaxCycles == 2
\* Records in one response of the search service.
MaxRecords == 1
\* Time that passes in one Tick step.
TickStep == 250

\* ------------------------------------------------------ program constants
\* useDebounce(q, 500)
DebounceDelay == 500
\* params.set("limit", "500")
Limit == 500

\* ------------------------------------------------------------ value sets
\* Text typed into the search box: sequences of characters.
Queries == { <<>>, <<" ">>, <<"a">> }
Engines == { "al", "es" }
\* Network/language codes of the select (a subset of its menu) with "" = Select.
Languages == { "", "en" }
\* Values of the free-solo tag list.
TagLists == { <<>>, <<"t">> }
Tabs == { "series", "episodes" }
DocTypes == { "playlist", "media" }
\* The Apps of Spec; "noabort" and "single" have specifications of their own.
Revisions == { "abort", "mock" }

NoTimer == -1
NoController == 0

VARIABLES
    revision,      \* which App is mounted
    q,             \* useState("")                        raw query text
    debouncedQ,    \* useDebounce(q, 500)
    timer,         \* time left on the debounce timeout, or NoTimer
    engine,        \* useState("al")
    language,      \* useState("en")
    tags,          \* useState([])
    tab,           \* useState("series")
    loading,       \* useState(false)
    counts,        \* useState({series: 0, episodes: 0})
    seriesItems,   \* useState([])
    episodeItems,  \* useState([])
    abortRef,      \* useRef(null): the cycle whose controller is current
    cycles,        \* the fetchData calls made so far, by number
    microtasks,    \* cycles whose Promise.all settled, continuation not yet run
    errorLog,      \* number of console.error calls
    sinceQ,        \* time since the last change of q (capped at DebounceDelay)
    dialogOpen,    \* useState(false)
    dialogData,    \* useState(null): <<>> is null, <<r>> holds the record r
    items,         \* useState([])                       part_001 only
    seqCurrent,    \* design notes: the current cycle-sequence number
    seqHeld        \* design notes: lists and totals of the sequence-number model

vars == << revision, q, debouncedQ, timer, engine, language, tags, tab, loading,
           counts, seriesItems, episodeItems, abortRef, cycles, microtasks,
           errorLog, sinceQ, dialogOpen, dialogData, items, seqCurrent, seqHeld >>

nStarted == Len(cycles)

Min(a, b) == IF a < b THEN a ELSE b

\* ------------------------------------------------------- String.trim()
IsSpace(ch) == ch = " "

RECURSIVE TrimStart(_)
TrimStart(s) ==
    IF s # <<>> /\ IsSpace(Head(s)) THEN TrimStart(Tail(s)) ELSE s

RECURSIVE TrimEnd(_)
TrimEnd(s) ==
    IF s # <<>> /\ IsSpace(s[Len(s)]) THEN TrimEnd(SubSeq(s, 1, Len(s) - 1)) ELSE s

Trim(s) == TrimEnd(TrimStart(s))

\* tags.join(",")
RECURSIVE Join(_)
Join(ts) ==
    IF ts = <<>> THEN <<>>
    ELSE IF Len(ts) = 1 THEN <<Head(ts)>>
    ELSE <<Head(ts), ",">> \o Join(Tail(ts))

\* --------------------------------------------------- src/src/App.tsx
\* MOCK, by kind (ids s1, e1..e8).
MOCK ==
    << [id |-> "s1", kind |-> "series"],  [id |-> "e1", kind |-> "episode"],
       [id |-> "e2", kind |-> "episode"], [id |-> "e3", kind |-> "episode"],
       [id |-> "e4", kind |-> "episode"], [id |-> "e5", kind |-> "episode"],
       [id |-> "e6", kind |-> "episode"], [id |-> "e7", kind |-> "episode"],
       [id |-> "e8", kind |-> "episode"] >>

\* MOCK.filter(i => i.kind === k)
MockOfKind(k) == SelectSeq(MOCK, LAMBDA i : i.kind = k)

\* --------------------------------------------------- the search service
\* The URL fetchOne builds; an absent parameter is the empty sequence.
Url(documentType, qv, eng, lang, tg) ==
    [ engine |-> eng,
      q |-> qv,
      documentType |-> documentType,
      network |-> IF lang # "" THEN <<lang>> ELSE <<>>,
      tags |-> IF Len(tg) > 0 THEN <<Join(tg)>> ELSE <<>>,
      limit |-> Limit ]

\* The records the service returns for a request: their ids name the request.
ApiItems(url, n) ==
    [ i \in 1..n |-> [ id |-> <<url, i>>, documentType |-> url.documentType ] ]

\* What can come back for one request: a page of records with the total (the
\* page is empty, or full with MaxRecords records; only a full page can have a
\* total that exceeds it), an error status with a JSON envelope that holds no
\* data object, a body that is not JSON, or no response at all.  data is <<>>
\* when the envelope holds no data.
Responses(url) ==
    { [ transport |-> "ok", status |-> 200, json |-> TRUE,
        data |-> << [ results |-> ApiItems(url, n), total |-> n ] >> ]
        : n \in {0, MaxRecords} }
    \cup { [ transport |-> "ok", status |-> 200, json |-> TRUE,
             data |-> << [ results |-> ApiItems(url, MaxRecords),
                           total |-> MaxRecords + 1 ] >> ],
           [ transport |-> "ok", status |-> 500, json |-> TRUE, data |-> <<>> ],
           [ transport |-> "ok", status |-> 502, json |-> FALSE, data |-> <<>> ],
           [ transport |-> "failed", status |-> 0, json |-> FALSE, data |-> <<>> ] }

\* ------------------------------------------------------------ part_000
mapApiToItem(ai) ==
    [ id |-> ai.id,
      kind |-> IF ai.documentType = "playlist" THEN "series" ELSE "episode",
      raw |-> ai ]

\* Faulty variant of TotalOf: the total is the number of records returned.
TotalByCounting(resp) ==
    IF resp.data # <<>> THEN Len(resp.data[1].results) ELSE 0

\* total: data?.data?.total ?? 0
TotalOf(resp) == IF resp.data # <<>> THEN resp.data[1].total ELSE 0

\* arr: data?.data?.results ?? []
ResultsOf(resp) == IF resp.data # <<>> THEN resp.data[1].results ELSE <<>>

\* The settlement of one fetchOne promise, given what came back: fetch rejects
\* when there is no response, res.json() rejects when the body is not JSON, and
\* otherwise the promise is fulfilled with {mapped, total}.  status and data
\* record what the service sent (the code reads neither res.status nor res.ok).
fetchOne(resp) ==
    IF resp.transport # "ok" THEN
        [ state |-> "rejected", error |-> "TypeError", mapped |-> <<>>, total |-> 0,
          status |-> resp.status, data |-> resp.data ]
    ELSE IF ~resp.json THEN
        [ state |-> "rejected", error |-> "SyntaxError", mapped |-> <<>>, total |-> 0,
          status |-> resp.status, data |-> resp.data ]
    ELSE
        [ state |-> "fulfilled", error |-> "",
          mapped |-> [ i \in 1..Len(ResultsOf(resp)) |-> mapApiToItem(ResultsOf(resp)[i]) ],
          total |-> TotalOf(resp),
          status |-> resp.status, data |-> resp.data ]

Pending == [ state |-> "pending", error |-> "", mapped |-> <<>>, total |-> 0,
             status |-> 0, data |-> <<>> ]
Aborted == [ state |-> "rejected", error |-> "AbortError", mapped |-> <<>>, total |-> 0,
             status |-> 0, data |-> <<>> ]

\* Promise.all over the two fetchOne promises, after request d settled as r:
\* rejected by the first rejection, fulfilled when both are fulfilled.
PromiseAll(cy, d, r) ==
    IF cy.all # "pending" THEN [ all |-> cy.all, error |-> cy.error ]
    ELSE IF r.state = "rejected" THEN [ all |-> "rejected", error |-> r.error ]
    ELSE IF \A e \in DocTypes \ {d} : cy.req[e].state = "fulfilled"
        THEN [ all |-> "fulfilled", error |-> "" ]
    ELSE [ all |-> "pending", error |-> "" ]

\* One request of a cycle settles as r.
SettleRequest(cy, d, r) ==
    [ cy EXCEPT !.req[d] = r,
                !.all = PromiseAll(cy, d, r).all,
                !.error = PromiseAll(cy, d, r).error ]

\* Faulty variant of Abort: the previous controller is never aborted.
AbortSkipped(cy) == cy

\* Faulty variant of Abort: the signal is aborted but was not handed to fetch,
\* so the requests stay outstanding and settle later.
AbortWithoutSignal(cy) == [ cy EXCEPT !.aborted = TRUE ]

\* ac.abort(): the signal is aborted and every fetch still pending on it
\* rejects with an AbortError.
Abort(cy) ==
    LET ds == { d \in DocTypes : cy.req[d].state = "pending" }
    IN  [ cy EXCEPT !.aborted = TRUE,
                    !.req = [ d \in DocTypes |-> IF d \in ds THEN Aborted ELSE cy.req[d] ],
                    !.all = IF cy.all = "pending" /\ ds # {} THEN "rejected" ELSE cy.all,
                    !.error = IF cy.all = "pending" /\ ds # {} THEN "AbortError" ELSE cy.error ]

\* Faulty variant of NewCycle: the requests carry the debounced text as typed,
\* not "" when it trims to nothing and not the trimmed text otherwise.
NewCycleUntrimmed(dq, eng, lang, tg) ==
    [ qv |-> Trim(dq), engine |-> eng, language |-> lang, tags |-> tg,
      url |-> [ d \in DocTypes |-> Url(d, dq, eng, lang, tg) ],
      aborted |-> FALSE,
      req |-> [ d \in DocTypes |-> Pending ],
      all |-> "pending", error |-> "",
      outcome |-> "none" ]

\* The state of a fetchData call right after its synchronous part.
NewCycle(dq, eng, lang, tg) ==
    [ qv |-> Trim(dq), engine |-> eng, language |-> lang, tags |-> tg,
      url |-> [ d \in DocTypes |-> Url(d, Trim(dq), eng, lang, tg) ],
      aborted |-> FALSE,
      req |-> [ d \in DocTypes |-> Pending ],
      all |-> "pending", error |-> "",
      outcome |-> "none" ]

\* What the heap still holds of a fetchData call.  The values of its promises
\* are dropped once they can no longer be read (the call ended otherwise than
\* by committing them, or a later call has started); a superseded call that
\* ended and has no request outstanding keeps only how it ended.
Collect(cy, isLatest) ==
    IF cy.outcome = "none" THEN cy
    ELSE IF ~isLatest /\ \A d \in DocTypes : cy.req[d].state # "pending" THEN
        [ qv |-> <<>>, engine |-> "", language |-> "", tags |-> <<>>,
          url |-> [ d \in DocTypes |-> <<>> ],
          aborted |-> cy.aborted,
          req |-> [ d \in DocTypes |-> [ Pending EXCEPT !.state = "settled" ] ],
          all |-> "settled", error |-> "", outcome |-> cy.outcome ]
    ELSE IF isLatest /\ cy.outcome = "committed" THEN cy
    ELSE [ cy EXCEPT !.req = [ d \in DocTypes |->
                                 [ cy.req[d] EXCEPT !.mapped = <<>>, !.total = 0,
                                                    !.data = <<>> ] ] ]

Collected(cs) == [ c \in 1..Len(cs) |-> Collect(cs[c], c = Len(cs)) ]

\* ------------------------------- design notes: cycle-sequence numbers
\* The model that runs beside the code: every cycle takes the next sequence
\* number when it starts (the number of a cycle is its index in cycles).
SeqStart == seqCurrent + 1

\* A settlement is applied only if its sequence number equals the current one.
SeqApplies(c) == c = seqCurrent

\* The lists and totals of the sequence-number model after cycle c settled: an
\* applied settlement replaces them by the results of the cycle, or clears them
\* when a request of the cycle was rejected.
SeqSettle(c) ==
    LET cy == cycles[c]
    IN  IF ~SeqApplies(c) THEN seqHeld
        ELSE IF cy.all = "fulfilled" THEN
            [ counts |-> [ series |-> cy.req["playlist"].total,
                           episodes |-> cy.req["media"].total ],
              seriesItems |-> cy.req["playlist"].mapped,
              episodeItems |-> cy.req["media"].mapped ]
        ELSE [ counts |-> [ series |-> 0, episodes |-> 0 ],
               seriesItems |-> <<>>, episodeItems |-> <<>> ]

\* ------------------------------------------------------------ part_000
\* fetchData up to its await, called by the effect when fetchData changed:
\* abort the previous controller, install a new one, setLoading(true), issue
\* both requests.
fetchData(dq, eng, lang, tg) ==
    LET prev == abortRef
        old == [ c \in 1..nStarted |->
                   IF c = prev THEN Abort(cycles[c]) ELSE cycles[c] ]
    IN  /\ nStarted < MaxCycles
        /\ cycles' = Collected(Append(old, NewCycle(dq, eng, lang, tg)))
        /\ abortRef' = nStarted + 1
        /\ loading' = TRUE
        /\ microtasks' =
             IF prev # NoController /\ cycles[prev].all = "pending"
                /\ old[prev].all # "pending"
             THEN <<prev>> ELSE <<>>
        /\ seqCurrent' = SeqStart
        /\ seqHeld' = seqHeld

\* Faulty variant of IsAbortError: the catch block does not tell a cancellation
\* from a failure.
AbortErrorNotRecognised(cy) == FALSE

\* err?.name === "AbortError"
IsAbortError(cy) == cy.error = "AbortError"

\* Faulty variant of CatchState: the catch block logs the error and keeps what
\* is held.
CatchKeepsState ==
    [ counts |-> counts, seriesItems |-> seriesItems, episodeItems |-> episodeItems ]

\* What the catch block sets: setSeriesItems([]), setEpisodeItems([]),
\* setCounts({series: 0, episodes: 0}).
CatchState ==
    [ counts |-> [ series |-> 0, episodes |-> 0 ],
      seriesItems |-> <<>>, episodeItems |-> <<>> ]

\* Faulty variant of Continue: there is no finally block, setLoading(false) is
\* the last statement of the catch block.
ContinueWithoutFinally(c) ==
    LET cy == cycles[c]
    IN  /\ IF cy.all = "fulfilled" THEN
              /\ counts' = [ series |-> cy.req["playlist"].total,
                             episodes |-> cy.req["media"].total ]
              /\ seriesItems' = cy.req["playlist"].mapped
              /\ episodeItems' = cy.req["media"].mapped
              /\ errorLog' = errorLog
              /\ cycles' = Collected([ cycles EXCEPT ![c].outcome = "committed" ])
              /\ loading' = loading
           ELSE IF IsAbortError(cy) THEN
              /\ UNCHANGED << counts, seriesItems, episodeItems, errorLog >>
              /\ cycles' = Collected([ cycles EXCEPT ![c].outcome = "aborted" ])
              /\ loading' = loading
           ELSE
              /\ errorLog' = errorLog + 1
              /\ seriesItems' = CatchState.seriesItems
              /\ episodeItems' = CatchState.episodeItems
              /\ counts' = CatchState.counts
              /\ cycles' = Collected([ cycles EXCEPT ![c].outcome = "failed" ])
              /\ loading' = FALSE
        /\ seqHeld' = SeqSettle(c)
        /\ seqCurrent' = seqCurrent

\* Faulty variant of Continue: a commit appends the new records to the lists
\* held.
ContinueMerges(c) ==
    LET cy == cycles[c]
    IN  /\ IF cy.all = "fulfilled" THEN
              /\ counts' = [ series |-> cy.req["playlist"].total,
                             episodes |-> cy.req["media"].total ]
              /\ seriesItems' = seriesItems \o cy.req["playlist"].mapped
              /\ episodeItems' = episodeItems \o cy.req["media"].mapped
              /\ errorLog' = errorLog
              /\ cycles' = Collected([ cycles EXCEPT ![c].outcome = "committed" ])
           ELSE IF IsAbortError(cy) THEN
              /\ UNCHANGED << counts, seriesItems, episodeItems, errorLog >>
              /\ cycles' = Collected([ cycles EXCEPT ![c].outcome = "aborted" ])
           ELSE
              /\ errorLog' = errorLog + 1
              /\ seriesItems' = CatchState.seriesItems
              /\ episodeItems' = CatchState.episodeItems
              /\ counts' = CatchState.counts
              /\ cycles' = Collected([ cycles EXCEPT ![c].outcome = "failed" ])
        /\ loading' = FALSE
        /\ seqHeld' = SeqSettle(c)
        /\ seqCurrent' = seqCurrent

\* Faulty variant of Continue: the catch block calls fetchData again after it
\* cleared the state.
ContinueRetries(c) ==
    LET cy == cycles[c]
    IN  /\ IF cy.all = "fulfilled" THEN
              /\ counts' = [ series |-> cy.req["playlist"].total,
                             episodes |-> cy.req["media"].total ]
              /\ seriesItems' = cy.req["playlist"].mapped
              /\ episodeItems' = cy.req["media"].mapped
              /\ errorLog' = errorLog
              /\ cycles' = Collected([ cycles EXCEPT ![c].outcome = "committed" ])
              /\ loading' = FALSE
           ELSE IF IsAbortError(cy) THEN
              /\ UNCHANGED << counts, seriesItems, episodeItems, errorLog >>
              /\ cycles' = Collected([ cycles EXCEPT ![c].outcome = "aborted" ])
              /\ loading' = FALSE
           ELSE
              /\ errorLog' = errorLog + 1
              /\ seriesItems' = CatchState.seriesItems
              /\ episodeItems' = CatchState.episodeItems
              /\ counts' = CatchState.counts
              /\ cycles' =
                   IF nStarted < MaxCycles
                   THEN Collected(Append([ cycles EXCEPT ![c].outcome = "failed" ],
                                         NewCycle(debouncedQ, engine, language, tags)))
                   ELSE Collected([ cycles EXCEPT ![c].outcome = "failed" ])
              /\ loading' = (nStarted < MaxCycles)
        /\ seqHeld' = SeqSettle(c)
        /\ seqCurrent' = seqCurrent

\* The continuation of fetchData after await Promise.all: try, catch, finally.
Continue(c) ==
    LET cy == cycles[c]
    IN  /\ IF cy.all = "fulfilled" THEN
              /\ counts' = [ series |-> cy.req["playlist"].total,
                             episodes |-> cy.req["media"].total ]
              /\ seriesItems' = cy.req["playlist"].mapped
              /\ episodeItems' = cy.req["media"].mapped
              /\ errorLog' = errorLog
              /\ cycles' = Collected([ cycles EXCEPT ![c].outcome = "committed" ])
           ELSE IF IsAbortError(cy) THEN
              /\ UNCHANGED << counts, seriesItems, episodeItems, errorLog >>
              /\ cycles' = Collected([ cycles EXCEPT ![c].outcome = "aborted" ])
           ELSE
              /\ errorLog' = errorLog + 1
              /\ seriesItems' = CatchState.seriesItems
              /\ episodeItems' = CatchState.episodeItems
              /\ counts' = CatchState.counts
              /\ cycles' = Collected([ cycles EXCEPT ![c].outcome = "failed" ])
        /\ loading' = FALSE
        /\ seqHeld' = SeqSettle(c)
        /\ seqCurrent' = seqCurrent

\* ------------------------------------------------------------- rendering
\* const visible = tab === "series" ? seriesItems : episodeItems
visible ==
    IF revision = "mock"
    THEN (IF tab = "series" THEN MockOfKind("series") ELSE MockOfKind("episode"))
    ELSE (IF tab = "series" THEN seriesItems ELSE episodeItems)

\* The number in the label of tab t: `Series (${counts.series})`.
TabCount(t) ==
    IF revision = "mock"
    THEN (IF t = "series" THEN Len(MockOfKind("series")) ELSE Len(MockOfKind("episode")))
    ELSE counts[t]

\* ------------------------------------------------------------------ Init
Init ==
    /\ revision \in Revisions
    /\ q = <<>>
    /\ debouncedQ = <<>>
    /\ timer = NoTimer
    /\ engine = "al"
    /\ language = "en"
    /\ tags = <<>>
    /\ tab = IF revision = "mock" THEN "episodes" ELSE "series"
    /\ loading = FALSE
    /\ counts = [ series |-> 0, episodes |-> 0 ]
    /\ seriesItems = <<>>
    /\ episodeItems = <<>>
    /\ abortRef = NoController
    /\ cycles = <<>>
    /\ microtasks = <<>>
    /\ errorLog = 0
    /\ sinceQ = DebounceDelay
    /\ dialogOpen = FALSE
    /\ dialogData = <<>>
    /\ items = <<>>
    /\ seqCurrent = 0
    /\ seqHeld = [ counts |-> [ series |-> 0, episodes |-> 0 ],
                   seriesItems |-> <<>>, episodeItems |-> <<>> ]

held == << counts, seriesItems, episodeItems >>
filters == << engine, language, tags >>

\* A task may start: the App with the fetch logic is mounted, its first effect
\* has run, and no microtask is queued.
Idle == revision = "abort" /\ nStarted >= 1 /\ microtasks = <<>>

\* --------------------------------------------------------------- actions
\* useEffect(() => { fetchData() }, [fetchData]) after the first render.
Mount ==
    /\ revision = "abort" /\ nStarted = 0
    /\ fetchData(debouncedQ, engine, language, tags)
    /\ UNCHANGED << dialogOpen, dialogData, items,
                    revision, q, debouncedQ, timer, engine, language, tags, tab,
                    counts, seriesItems, episodeItems, errorLog, sinceQ >>

\* useDebounce(value, delay): a change of value clears the timeout and starts
\* one of delay time units; when it expires the debounced value becomes value.
useDebounceRestart == DebounceDelay

useDebounceExpired == timer = 0

\* onChange of the search box: setQ; useDebounce restarts its timeout.
SetQuery(text) ==
    /\ Idle
    /\ text # q
    /\ q' = text
    /\ timer' = useDebounceRestart
    /\ sinceQ' = 0
    /\ UNCHANGED << dialogOpen, dialogData, items, seqCurrent, seqHeld,
                    revision, debouncedQ, engine, language, tags, tab, loading,
                    counts, seriesItems, episodeItems, abortRef, cycles,
                    microtasks, errorLog >>

\* Faulty variant of DepsChanged: fetchData is a new function on every render,
\* so the effect calls it after every render.
DepsIgnored(dq, eng, lang, tg) == TRUE

\* useCallback(..., [debouncedQ, engine, language, tags]) and
\* useEffect(..., [fetchData]): the effect runs again when a dependency changed.
DepsChanged(dq, eng, lang, tg) ==
    dq # debouncedQ \/ eng # engine \/ lang # language \/ tg # tags

\* The timeout of useDebounce fires: setDebounced(q).  fetchData changes, and
\* the effect calls it, only when the debounced value changed.
DebounceFire ==
    /\ Idle
    /\ useDebounceExpired
    /\ timer' = NoTimer
    /\ debouncedQ' = q
    /\ IF DepsChanged(q, engine, language, tags)
       THEN fetchData(q, engine, language, tags)
       ELSE UNCHANGED << cycles, abortRef, loading, microtasks,
                         seqCurrent, seqHeld >>
    /\ UNCHANGED << dialogOpen, dialogData, items,
                    revision, q, engine, language, tags, tab, counts,
                    seriesItems, episodeItems, errorLog, sinceQ >>

\* Time passes, at most up to the deadline of the debounce timeout.
Tick ==
    /\ Idle
    /\ timer # 0
    /\ LET d == IF timer = NoTimer THEN TickStep ELSE Min(TickStep, timer)
       IN  /\ timer' = IF timer = NoTimer THEN NoTimer ELSE timer - d
           /\ sinceQ' = Min(DebounceDelay, sinceQ + d)
    /\ UNCHANGED << dialogOpen, dialogData, items, seqCurrent, seqHeld,
                    revision, q, debouncedQ, engine, language, tags, tab, loading,
                    counts, seriesItems, episodeItems, abortRef, cycles,
                    microtasks, errorLog >>

\* onChange of the Engine select.
SetEngine(e) ==
    /\ Idle
    /\ e # engine
    /\ engine' = e
    /\ DepsChanged(debouncedQ, e, language, tags)
    /\ fetchData(debouncedQ, e, language, tags)
    /\ UNCHANGED << dialogOpen, dialogData, items,
                    revision, q, debouncedQ, timer, language, tags, tab, counts,
                    seriesItems, episodeItems, errorLog, sinceQ >>

\* onChange of the Network select.
SetLanguage(l) ==
    /\ Idle
    /\ l # language
    /\ language' = l
    /\ DepsChanged(debouncedQ, engine, l, tags)
    /\ fetchData(debouncedQ, engine, l, tags)
    /\ UNCHANGED << dialogOpen, dialogData, items,
                    revision, q, debouncedQ, timer, engine, tags, tab, counts,
                    seriesItems, episodeItems, errorLog, sinceQ >>

\* Faulty variant of SetTags: tags is missing from the dependencies of fetchData.
SetTagsNotADependency(t) ==
    /\ Idle
    /\ t # tags
    /\ tags' = t
    /\ UNCHANGED << dialogOpen, dialogData, items, seqCurrent, seqHeld,
                    revision, q, debouncedQ, timer, engine, language, tab, loading,
                    counts, seriesItems, episodeItems, abortRef, cycles,
                    microtasks, errorLog, sinceQ >>

\* onChange of the Tags autocomplete.
SetTags(t) ==
    /\ Idle
    /\ t # tags
    /\ tags' = t
    /\ DepsChanged(debouncedQ, engine, language, t)
    /\ fetchData(debouncedQ, engine, language, t)
    /\ UNCHANGED << dialogOpen, dialogData, items,
                    revision, q, debouncedQ, timer, engine, language, tab, counts,
                    seriesItems, episodeItems, errorLog, sinceQ >>

\* Faulty variant of SetTab: tab is a dependency of fetchData (as in the
\* single-list revision), so a change of tab fetches again.
SetTabRefetches(v) ==
    /\ Idle
    /\ v # tab
    /\ tab' = v
    /\ fetchData(debouncedQ, engine, language, tags)
    /\ UNCHANGED << dialogOpen, dialogData, items,
                    revision, q, debouncedQ, timer, engine, language, tags,
                    counts, seriesItems, episodeItems, errorLog, sinceQ >>

\* onChange of the Tabs: setTab(v).
SetTab(v) ==
    /\ Idle
    /\ v # tab
    /\ tab' = v
    /\ UNCHANGED << dialogOpen, dialogData, items, seqCurrent, seqHeld,
                    revision, q, debouncedQ, timer, engine, language, tags, loading,
                    counts, seriesItems, episodeItems, abortRef, cycles,
                    microtasks, errorLog, sinceQ >>

\* The network answers request d of cycle c: its fetchOne promise settles.
Respond(c, d) ==
    /\ Idle
    /\ cycles[c].req[d].state = "pending"
    /\ \E resp \in Responses(cycles[c].url[d]) :
         LET cy == SettleRequest(cycles[c], d, fetchOne(resp))
         IN  /\ cycles' = Collected([ cycles EXCEPT ![c] = cy ])
             /\ microtasks' =
                  IF cycles[c].all = "pending" /\ cy.all # "pending"
                  THEN <<c>> ELSE <<>>
    /\ UNCHANGED << dialogOpen, dialogData, items, seqCurrent, seqHeld,
                    revision, q, debouncedQ, timer, engine, language, tags, tab,
                    loading, counts, seriesItems, episodeItems, abortRef,
                    errorLog, sinceQ >>

\* The queued continuation of fetchData runs.
RunMicrotask ==
    /\ microtasks # <<>>
    /\ Continue(Head(microtasks))
    /\ microtasks' = Tail(microtasks)
    /\ UNCHANGED << dialogOpen, dialogData, items,
                    revision, q, debouncedQ, timer, engine, language, tags, tab,
                    abortRef, sinceQ >>

\* src/src/App.tsx: setQ and setTab are all it does.
MockSetQuery(text) ==
    /\ revision = "mock"
    /\ text # q
    /\ q' = text
    /\ UNCHANGED << dialogOpen, dialogData, items, seqCurrent, seqHeld,
                    revision, debouncedQ, timer, engine, language, tags, tab,
                    loading, counts, seriesItems, episodeItems, abortRef, cycles,
                    microtasks, errorLog, sinceQ >>

MockSetTab(v) ==
    /\ revision = "mock"
    /\ v # tab
    /\ tab' = v
    /\ UNCHANGED << dialogOpen, dialogData, items, seqCurrent, seqHeld,
                    revision, q, debouncedQ, timer, engine, language, tags, loading,
                    counts, seriesItems, episodeItems, abortRef, cycles,
                    microtasks, errorLog, sinceQ >>

Next ==
    \/ Mount
    \/ \E text \in Queries : SetQuery(text)
    \/ DebounceFire
    \/ Tick
    \/ \E e \in Engines : SetEngine(e)
    \/ \E l \in Languages : SetLanguage(l)
    \/ \E t \in TagLists : SetTags(t)
    \/ \E v \in Tabs : SetTab(v)
    \/ \E c \in 1..nStarted : \E d \in DocTypes : Respond(c, d)
    \/ RunMicrotask
    \/ \E text \in Queries : MockSetQuery(text)
    \/ \E v \in Tabs : MockSetTab(v)

Spec == Init /\ [][Next]_vars

\* The fetch logic alone: the App of part_000 with the selected tab left as it is.
InitFetch == Init /\ revision = "abort"

NextFetch ==
    \/ Mount
    \/ \E text \in Queries : SetQuery(text)
    \/ DebounceFire
    \/ Tick
    \/ \E e \in Engines : SetEngine(e)
    \/ \E l \in Languages : SetLanguage(l)
    \/ \E t \in TagLists : SetTags(t)
    \/ \E c \in 1..nStarted : \E d \in DocTypes : Respond(c, d)
    \/ RunMicrotask

SpecFetch == InitFetch /\ [][NextFetch]_vars

\* The fetch logic for a user who types and works the Engine select.
NextLive ==
    \/ Mount
    \/ \E text \in Queries : SetQuery(text)
    \/ DebounceFire
    \/ Tick
    \/ \E e \in Engines : SetEngine(e)
    \/ \E c \in 1..nStarted : \E d \in DocTypes : Respond(c, d)
    \/ RunMicrotask

\* The same under fair scheduling: the first effect runs, timers fire, every
\* outstanding request is answered in the end (or was aborted), and a queued
\* continuation runs.
SpecLive ==
    /\ InitFetch /\ [][NextLive]_vars
    /\ WF_vars(Mount)
    /\ WF_vars(Tick)
    /\ WF_vars(DebounceFire)
    /\ WF_vars(\E c \in 1..nStarted : \E d \in DocTypes : Respond(c, d))
    /\ WF_vars(RunMicrotask)

\* ------------------------------------------------------ the detail dialog
\* it.raw ?? it
RawOrItem(it) == IF "raw" \in DOMAIN it THEN it.raw ELSE it

\* Faulty variant of handleCloseDialog: closing also forgets the record.
CloseDialogClearsData ==
    /\ Idle
    /\ dialogOpen
    /\ dialogOpen' = FALSE
    /\ dialogData' = <<>>
    /\ UNCHANGED << revision, q, debouncedQ, timer, engine, language, tags, tab,
                    loading, counts, seriesItems, episodeItems, abortRef, cycles,
                    microtasks, errorLog, sinceQ, items, seqCurrent, seqHeld >>

\* onClose of the Dialog (Escape or a click on the backdrop, so only while it
\* is open): setDialogOpen(false).
handleCloseDialog ==
    /\ Idle
    /\ dialogOpen
    /\ dialogOpen' = FALSE
    /\ UNCHANGED << revision, q, debouncedQ, timer, engine, language, tags, tab,
                    loading, counts, seriesItems, episodeItems, abortRef, cycles,
                    microtasks, errorLog, sinceQ, dialogData, items,
                    seqCurrent, seqHeld >>

\* onClick of the i-th card of the grid: setDialogData(it.raw ?? it) and
\* setDialogOpen(true).  The Dialog is modal, so a card is clicked only while
\* it is closed; the grid shows visible once the deferred render is done.
handleCardClick(i) ==
    /\ Idle
    /\ ~dialogOpen
    /\ i \in 1..Len(visible)
    /\ dialogData' = << RawOrItem(visible[i]) >>
    /\ dialogOpen' = TRUE
    /\ UNCHANGED << revision, q, debouncedQ, timer, engine, language, tags, tab,
                    loading, counts, seriesItems, episodeItems, abortRef, cycles,
                    microtasks, errorLog, sinceQ, items, seqCurrent, seqHeld >>

\* The App of part_000 with its dialog, for a user who works the cards, the
\* tabs and the Engine select (the one control that starts cycles here): the
\* controls of the page are reached only while the modal dialog is closed;
\* responses arrive at any time.
NextDialog ==
    \/ Mount
    \/ ~dialogOpen /\ \E e \in Engines : SetEngine(e)
    \/ ~dialogOpen /\ \E v \in Tabs : SetTab(v)
    \/ \E c \in 1..nStarted : \E d \in DocTypes : Respond(c, d)
    \/ RunMicrotask
    \/ \E i \in 1..MaxRecords : handleCardClick(i)
    \/ handleCloseDialog

SpecDialog == InitFetch /\ [][NextDialog]_vars

\* -------------------- part_000 lines 478-676: the App without a controller
\* The URL of fetchOne (lines 493-498): q, documentType and, when a language
\* is selected, language; no tags, no limit.
UrlNoAbort(documentType, qv, eng, lang) ==
    [ engine |-> eng,
      q |-> qv,
      documentType |-> documentType,
      language |-> IF lang # "" THEN <<lang>> ELSE <<>> ]

\* The state of a fetchData call of this revision right after its synchronous
\* part: both requests issued, with no signal.
NewCycleNoAbort(dq, eng, lang) ==
    [ qv |-> Trim(dq), engine |-> eng, language |-> lang, tags |-> <<>>,
      url |-> [ d \in DocTypes |-> UrlNoAbort(d, Trim(dq), eng, lang) ],
      aborted |-> FALSE,
      req |-> [ d \in DocTypes |-> Pending ],
      all |-> "pending", error |-> "",
      outcome |-> "none" ]

\* fetchData (lines 508-552) up to its await: setLoading(true) and both
\* requests; the requests of earlier calls stay outstanding.
fetchDataNoAbort(dq, eng, lang) ==
    /\ nStarted < MaxCycles
    /\ cycles' = Collected(Append(cycles, NewCycleNoAbort(dq, eng, lang)))
    /\ loading' = TRUE
    /\ microtasks' = <<>>

\* The continuation of fetchData after await Promise.all: the commit, or the
\* catch block, which clears whatever the error is; then finally.
ContinueNoAbort(c) ==
    LET cy == cycles[c]
    IN  /\ IF cy.all = "fulfilled" THEN
              /\ counts' = [ series |-> cy.req["playlist"].total,
                             episodes |-> cy.req["media"].total ]
              /\ seriesItems' = cy.req["playlist"].mapped
              /\ episodeItems' = cy.req["media"].mapped
              /\ errorLog' = errorLog
              /\ cycles' = Collected([ cycles EXCEPT ![c].outcome = "committed" ])
           ELSE
              /\ errorLog' = errorLog + 1
              /\ seriesItems' = <<>>
              /\ episodeItems' = <<>>
              /\ counts' = [ series |-> 0, episodes |-> 0 ]
              /\ cycles' = Collected([ cycles EXCEPT ![c].outcome = "failed" ])
        /\ loading' = FALSE

IdleNoAbort == revision = "noabort" /\ nStarted >= 1 /\ microtasks = <<>>

\* useCallback(..., [debouncedQ, engine, language]) and useEffect(..., [fetchData]).
DepsChangedNoAbort(dq, eng, lang) ==
    dq # debouncedQ \/ eng # engine \/ lang # language

InitNoAbort ==
    /\ revision = "noabort"
    /\ q = <<>> /\ debouncedQ = <<>> /\ timer = NoTimer
    /\ engine = "al" /\ language = "en" /\ tags = <<>>
    /\ tab = "series"
    /\ loading = FALSE
    /\ counts = [ series |-> 0, episodes |-> 0 ]
    /\ seriesItems = <<>> /\ episodeItems = <<>>
    /\ abortRef = NoController
    /\ cycles = <<>> /\ microtasks = <<>>
    /\ errorLog = 0 /\ sinceQ = DebounceDelay
    /\ dialogOpen = FALSE /\ dialogData = <<>> /\ items = <<>>
    /\ seqCurrent = 0
    /\ seqHeld = [ counts |-> [ series |-> 0, episodes |-> 0 ],
                   seriesItems |-> <<>>, episodeItems |-> <<>> ]

\* What no handler of this revision touches.
restNoAbort == << revision, tags, tab, abortRef, dialogOpen, dialogData, items,
                 seqCurrent, seqHeld >>

NoAbortMount ==
    /\ revision = "noabort" /\ nStarted = 0
    /\ fetchDataNoAbort(debouncedQ, engine, language)
    /\ UNCHANGED << restNoAbort, q, debouncedQ, timer, engine, language,
                    counts, seriesItems, episodeItems, errorLog, sinceQ >>

NoAbortSetQuery(text) ==
    /\ IdleNoAbort
    /\ text # q
    /\ q' = text
    /\ timer' = useDebounceRestart
    /\ sinceQ' = 0
    /\ UNCHANGED << restNoAbort, debouncedQ, engine, language, loading, counts,
                    seriesItems, episodeItems, cycles, microtasks, errorLog >>

NoAbortDebounceFire ==
    /\ IdleNoAbort
    /\ useDebounceExpired
    /\ timer' = NoTimer
    /\ debouncedQ' = q
    /\ IF DepsChangedNoAbort(q, engine, language)
       THEN fetchDataNoAbort(q, engine, language)
       ELSE UNCHANGED << cycles, loading, microtasks >>
    /\ UNCHANGED << restNoAbort, q, engine, language, counts, seriesItems,
                    episodeItems, errorLog, sinceQ >>

NoAbortTick ==
    /\ IdleNoAbort
    /\ timer # 0
    /\ LET d == IF timer = NoTimer THEN TickStep ELSE Min(TickStep, timer)
       IN  /\ timer' = IF timer = NoTimer THEN NoTimer ELSE timer - d
           /\ sinceQ' = Min(DebounceDelay, sinceQ + d)
    /\ UNCHANGED << restNoAbort, q, debouncedQ, engine, language, loading, counts,
                    seriesItems, episodeItems, cycles, microtasks, errorLog >>

NoAbortSetEngine(e) ==
    /\ IdleNoAbort
    /\ e # engine
    /\ engine' = e
    /\ DepsChangedNoAbort(debouncedQ, e, language)
    /\ fetchDataNoAbort(debouncedQ, e, language)
    /\ UNCHANGED << restNoAbort, q, debouncedQ, timer, language, counts,
                    seriesItems, episodeItems, errorLog, sinceQ >>

NoAbortSetLanguage(l) ==
    /\ IdleNoAbort
    /\ l # language
    /\ language' = l
    /\ DepsChangedNoAbort(debouncedQ, engine, l)
    /\ fetchDataNoAbort(debouncedQ, engine, l)
    /\ UNCHANGED << restNoAbort, q, debouncedQ, timer, engine, counts,
                    seriesItems, episodeItems, errorLog, sinceQ >>

\* The network answers request d of cycle c, whichever cycle that is.
NoAbortRespond(c, d) ==
    /\ IdleNoAbort
    /\ cycles[c].req[d].state = "pending"
    /\ \E resp \in Responses(cycles[c].url[d]) :
         LET cy == SettleRequest(cycles[c], d, fetchOne(resp))
         IN  /\ cycles' = Collected([ cycles EXCEPT ![c] = cy ])
             /\ microtasks' =
                  IF cycles[c].all = "pending" /\ cy.all # "pending"
                  THEN <<c>> ELSE <<>>
    /\ UNCHANGED << restNoAbort, q, debouncedQ, timer, engine, language, loading,
                    counts, seriesItems, episodeItems, errorLog, sinceQ >>

NoAbortRunMicrotask ==
    /\ revision = "noabort"
    /\ microtasks # <<>>
    /\ ContinueNoAbort(Head(microtasks))
    /\ microtasks' = Tail(microtasks)
    /\ UNCHANGED << restNoAbort, q, debouncedQ, timer, engine, language, sinceQ >>

NextNoAbort ==
    \/ NoAbortMount
    \/ \E text \in Queries : NoAbortSetQuery(text)
    \/ NoAbortDebounceFire
    \/ NoAbortTick
    \/ \E e \in Engines : NoAbortSetEngine(e)
    \/ \E l \in Languages : NoAbortSetLanguage(l)
    \/ \E c \in 1..nStarted : \E d \in DocTypes : NoAbortRespond(c, d)
    \/ NoAbortRunMicrotask

SpecNoAbort == InitNoAbort /\ [][NextNoAbort]_vars

\* ------------------------------- part_001: the App with a single item list
\* const MOCK: Item[] = []
MockSingle == <<>>

\* series / episodes: (items.length ? items : MOCK).filter(i => i.kind === k)
OfKindSingle(k) ==
    SelectSeq(IF Len(items) # 0 THEN items ELSE MockSingle, LAMBDA i : i.kind = k)

\* const visible = tab === "series" ? series : episodes
visibleSingle ==
    IF tab = "series" THEN OfKindSingle("series") ELSE OfKindSingle("episode")

\* The URL of fetchOne (lines 145-149): engine al, q and documentType.
UrlSingle(documentType, qv) ==
    [ engine |-> "al", q |-> qv, documentType |-> documentType ]

\* The state of a fetchData call that fetches, right after its synchronous
\* part; tab is the tab its closure holds.
NewCycleSingle(dq, tb) ==
    [ qv |-> Trim(dq), tab |-> tb,
      url |-> [ d \in DocTypes |-> UrlSingle(d, Trim(dq)) ],
      req |-> [ d \in DocTypes |-> Pending ],
      all |-> "pending", error |-> "",
      outcome |-> "none" ]

\* What the heap still holds of a call: the values of its promises are dropped
\* once its continuation has run.
CollectSingle(cy) ==
    IF cy.outcome = "none" THEN cy
    ELSE [ cy EXCEPT !.req = [ d \in DocTypes |->
                                 IF cy.req[d].state = "pending" THEN Pending
                                 ELSE [ Pending EXCEPT !.state = "settled" ] ],
                     !.all = "settled", !.error = "" ]

CollectedSingle(cs) == [ c \in 1..Len(cs) |-> CollectSingle(cs[c]) ]

\* fetchData (lines 159-192) up to its await, for the debounced query dq and
\* the tab tb of its closure: an empty qv clears the list and the counts and
\* returns; otherwise setLoading(true) and both requests.
fetchDataSingle(dq, tb) ==
    IF Trim(dq) = <<>> THEN
        /\ items' = <<>>
        /\ counts' = [ series |-> 0, episodes |-> 0 ]
        /\ UNCHANGED << cycles, loading, microtasks >>
    ELSE
        /\ nStarted < MaxCycles
        /\ cycles' = CollectedSingle(Append(cycles, NewCycleSingle(dq, tb)))
        /\ loading' = TRUE
        /\ microtasks' = <<>>
        /\ UNCHANGED << items, counts >>

\* The continuation of fetchData after await Promise.all: setCounts and the
\* list of the tab of the closure, or the catch block; then finally.
ContinueSingle(c) ==
    LET cy == cycles[c]
    IN  /\ IF cy.all = "fulfilled" THEN
              /\ counts' = [ series |-> cy.req["playlist"].total,
                             episodes |-> cy.req["media"].total ]
              /\ items' = IF cy.tab = "series" THEN cy.req["playlist"].mapped
                          ELSE cy.req["media"].mapped
              /\ errorLog' = errorLog
              /\ cycles' = CollectedSingle([ cycles EXCEPT ![c].outcome = "committed" ])
           ELSE
              /\ errorLog' = errorLog + 1
              /\ items' = <<>>
              /\ counts' = [ series |-> 0, episodes |-> 0 ]
              /\ cycles' = CollectedSingle([ cycles EXCEPT ![c].outcome = "failed" ])
        /\ loading' = FALSE

\* The state after the first render and its effect, which finds qv empty and
\* sets the empty list and the zero counts that are there already.
InitSingle ==
    /\ revision = "single"
    /\ q = <<>> /\ debouncedQ = <<>> /\ timer = NoTimer
    /\ engine = "al" /\ language = "" /\ tags = <<>>
    /\ tab = "series"
    /\ loading = FALSE
    /\ counts = [ series |-> 0, episodes |-> 0 ]
    /\ seriesItems = <<>> /\ episodeItems = <<>>
    /\ abortRef = NoController
    /\ cycles = <<>> /\ microtasks = <<>>
    /\ errorLog = 0 /\ sinceQ = DebounceDelay
    /\ dialogOpen = FALSE /\ dialogData = <<>> /\ items = <<>>
    /\ seqCurrent = 0
    /\ seqHeld = [ counts |-> [ series |-> 0, episodes |-> 0 ],
                   seriesItems |-> <<>>, episodeItems |-> <<>> ]

IdleSingle == revision = "single" /\ microtasks = <<>>

\* What no handler of this revision touches.
restSingle == << revision, engine, language, tags, seriesItems, episodeItems,
                abortRef, dialogOpen, dialogData, seqCurrent, seqHeld >>

SingleSetQuery(text) ==
    /\ IdleSingle
    /\ text # q
    /\ q' = text
    /\ timer' = useDebounceRestart
    /\ sinceQ' = 0
    /\ UNCHANGED << restSingle, debouncedQ, tab, loading, counts, items, cycles,
                    microtasks, errorLog >>

\* useCallback(..., [debouncedQ, tab]): the timeout fires, and the effect calls
\* fetchData when the debounced value changed.
SingleDebounceFire ==
    /\ IdleSingle
    /\ useDebounceExpired
    /\ timer' = NoTimer
    /\ debouncedQ' = q
    /\ IF q # debouncedQ
       THEN fetchDataSingle(q, tab)
       ELSE UNCHANGED << cycles, loading, microtasks, items, counts >>
    /\ UNCHANGED << restSingle, q, tab, errorLog, sinceQ >>

SingleTick ==
    /\ IdleSingle
    /\ timer # 0
    /\ LET d == IF timer = NoTimer THEN TickStep ELSE Min(TickStep, timer)
       IN  /\ timer' = IF timer = NoTimer THEN NoTimer ELSE timer - d
           /\ sinceQ' = Min(DebounceDelay, sinceQ + d)
    /\ UNCHANGED << restSingle, q, debouncedQ, tab, loading, counts, items,
                    cycles, microtasks, errorLog >>

\* onChange of the Tabs: setTab(v).  tab is a dependency of fetchData, so the
\* effect calls the new fetchData.
SingleSetTab(v) ==
    /\ IdleSingle
    /\ v # tab
    /\ tab' = v
    /\ fetchDataSingle(debouncedQ, v)
    /\ UNCHANGED << restSingle, q, debouncedQ, timer, errorLog, sinceQ >>

SingleRespond(c, d) ==
    /\ IdleSingle
    /\ cycles[c].req[d].state = "pending"
    /\ \E resp \in Responses(cycles[c].url[d]) :
         LET cy == SettleRequest(cycles[c], d, fetchOne(resp))
         IN  /\ cycles' = CollectedSingle([ cycles EXCEPT ![c] = cy ])
             /\ microtasks' =
                  IF cycles[c].all = "pending" /\ cy.all # "pending"
                  THEN <<c>> ELSE <<>>
    /\ UNCHANGED << restSingle, q, debouncedQ, timer, tab, loading, counts,
                    items, errorLog, sinceQ >>

SingleRunMicrotask ==
    /\ revision = "single"
    /\ microtasks # <<>>
    /\ ContinueSingle(Head(microtasks))
    /\ microtasks' = Tail(microtasks)
    /\ UNCHANGED << restSingle, q, debouncedQ, timer, tab, sinceQ >>

NextSingle ==
    \/ \E text \in Queries : SingleSetQuery(text)
    \/ SingleDebounceFire
    \/ SingleTick
    \/ \E v \in Tabs : SingleSetTab(v)
    \/ \E c \in 1..nStarted : \E d \in DocTypes : SingleRespond(c, d)
    \/ SingleRunMicrotask

SpecSingle == InitSingle /\ [][NextSingle]_vars

\* ------------------------------------------------------------ properties
Latest == cycles[nStarted]

Outstanding(c) == \E d \in DocTypes : cycles[c].req[d].state = "pending"

\* No request is outstanding and no continuation is waiting to run.
Quiescent ==
    /\ microtasks = <<>>
    /\ \A c \in 1..nStarted : ~Outstanding(c)

\* C1: once no request is outstanding and the last cycle succeeded, the lists
\* and totals held are those of the two responses of the last cycle, which asked
\* for the trimmed debounced query with the filters current at that time.
C1_LastCycleHeld ==
    (revision = "abort" /\ nStarted >= 1 /\ Quiescent /\ Latest.all = "fulfilled") =>
        /\ Latest.qv = Trim(debouncedQ)
        /\ << Latest.engine, Latest.language, Latest.tags >> = filters
        /\ \A d \in DocTypes :
              Latest.url[d] = Url(d, Trim(debouncedQ), engine, language, tags)
        /\ seriesItems = Latest.req["playlist"].mapped
        /\ episodeItems = Latest.req["media"].mapped
        /\ counts = [ series |-> Latest.req["playlist"].total,
                      episodes |-> Latest.req["media"].total ]
        /\ \A i \in 1..Len(seriesItems) :
              seriesItems[i].raw.id[1] = Latest.url["playlist"]
        /\ \A i \in 1..Len(episodeItems) :
              episodeItems[i].raw.id[1] = Latest.url["media"]

\* A later cycle superseded an unsettled one, and its results for a typed query
\* are held.
C1_Witness ==
    /\ revision = "abort" /\ nStarted >= 2 /\ Quiescent
    /\ Latest.all = "fulfilled"
    /\ Latest.qv = <<"a">>
    /\ cycles[nStarted - 1].outcome = "aborted"
    /\ Len(seriesItems) > 0 /\ Len(episodeItems) > 0

\* C2: the settlement of a cycle that a later cycle has superseded changes
\* neither list nor either total, and logs no error.
C2_SupersededSettlementIgnored ==
    [][ \A c \in 1..nStarted :
          (c < nStarted /\ cycles[c].outcome = "none" /\ cycles'[c].outcome # "none")
            => /\ held' = held
               /\ errorLog' = errorLog
               /\ cycles'[c].outcome = "aborted" ]_vars

\* A cycle that was superseded before it settled has since settled.
C2_Witness ==
    /\ revision = "abort" /\ nStarted >= 2
    /\ cycles[nStarted - 1].outcome = "aborted"
    /\ microtasks = <<>>

\* A cycle is live: a request of it is outstanding and its signal is not aborted.
Live(c) == ~cycles[c].aborted /\ Outstanding(c)

\* C3: at most one cycle is live, and the controller of every cycle but the last
\* started is aborted.
C3_AtMostOneLive ==
    /\ Cardinality({ c \in 1..nStarted : Live(c) }) <= 1
    /\ \A c \in 1..nStarted : c < nStarted => cycles[c].aborted /\ ~Outstanding(c)

\* A cycle has just been started while the previous one was in flight.
C3_Witness ==
    /\ revision = "abort" /\ nStarted >= 2
    /\ Live(nStarted)
    /\ microtasks = << nStarted - 1 >>

\* The debounce timeout expires in this step.
Expiry == timer = 0 /\ timer' = NoTimer

\* C4 as stated: a change of q starts no cycle, and every burst of changes of q
\* starts exactly one cycle, when the timeout expires.
C4_Original ==
    [][ /\ (q' # q => nStarted' = nStarted)
        /\ (Expiry => nStarted' = nStarted + 1) ]_vars

\* C4 amended: a change of q starts no cycle and leaves the debounced value
\* alone; the timeout expires 500 time units after the last change of q and then
\* starts exactly one cycle, for the trimmed text, if the text differs from the
\* debounced value, and none if it equals it; no cycle but the first starts at
\* any other moment unless a filter changed.
C4_DebouncedQuery ==
    [][ /\ (q' # q => nStarted' = nStarted /\ debouncedQ' = debouncedQ)
        /\ (Expiry =>
              /\ sinceQ = DebounceDelay
              /\ debouncedQ' = q
              /\ nStarted' = nStarted + (IF q # debouncedQ THEN 1 ELSE 0)
              /\ (q # debouncedQ => cycles'[nStarted'].qv = Trim(q)))
        /\ ((nStarted' # nStarted /\ nStarted >= 1 /\ filters' = filters) =>
              Expiry /\ sinceQ = DebounceDelay) ]_vars

\* The second cycle, for a typed query and with no filter ever changed, has
\* been started by the expiry of the timeout.
C4_Witness ==
    /\ revision = "abort" /\ nStarted = 2
    /\ filters = << "al", "en", <<>> >>
    /\ Latest.qv = <<"a">>
    /\ \A d \in DocTypes : Latest.req[d].state = "pending"
    /\ timer = NoTimer /\ debouncedQ = q /\ sinceQ = DebounceDelay

C6_SetTabOnlyTab ==
    [][ tab' # tab =>
          /\ UNCHANGED << dialogOpen, dialogData, items, seqCurrent, seqHeld,
                          revision, q, debouncedQ, timer, engine, language, tags,
                          loading, counts, seriesItems, episodeItems, abortRef,
                          cycles, microtasks, errorLog, sinceQ >>
          /\ \A t \in Tabs : TabCount(t)' = TabCount(t)
          /\ visible' = IF revision = "mock"
                        THEN MockOfKind(IF tab' = "series" THEN "series" ELSE "episode")
                        ELSE IF tab' = "series" THEN seriesItems ELSE episodeItems ]_vars

\* The other tab is selected while a cycle is in flight and lists are held.
C6_Witness ==
    /\ revision = "abort" /\ tab = "episodes"
    /\ Len(episodeItems) > 0 /\ visible = episodeItems
    /\ nStarted >= 2 /\ Outstanding(nStarted) /\ timer # NoTimer

Zero == [ series |-> 0, episodes |-> 0 ]

\* The total in the data object the service sent for request d of cycle cy,
\* 0 when its envelope held no data object.
ApiTotal(cy, d) ==
    IF cy.req[d].data # <<>> THEN cy.req[d].data[1].total ELSE 0

ApiTotals(cy) ==
    [ series |-> ApiTotal(cy, "playlist"), episodes |-> ApiTotal(cy, "media") ]

\* C7: the number shown on each tab is the total the service returned for that
\* category to the cycle that committed last, whatever the number of records
\* held: the numbers change only when a cycle commits, to the totals of its two
\* responses, or when a cycle fails, to 0.
C7_CountsAreApiTotals ==
    /\ [](/\ (revision = "abort" /\ nStarted >= 1 /\ Latest.outcome = "committed") =>
               \A t \in Tabs : TabCount(t) = ApiTotals(Latest)[t]
          /\ (revision = "abort" /\ nStarted >= 1 /\ Latest.outcome = "failed") =>
               \A t \in Tabs : TabCount(t) = 0)
    /\ [][ (\E t \in Tabs : TabCount(t)' # TabCount(t)) =>
             \E c \in 1..nStarted :
                /\ cycles[c].outcome = "none"
                /\ \/ cycles'[c].outcome = "committed" /\ counts' = ApiTotals(cycles[c])
                   \/ cycles'[c].outcome = "failed" /\ counts' = Zero ]_vars

\* A response whose total exceeds the records it carries is displayed.
C7_Witness ==
    /\ revision = "abort" /\ nStarted >= 1 /\ Latest.outcome = "committed"
    /\ TabCount("episodes") > Len(episodeItems)
    /\ TabCount("series") = Len(seriesItems)
    /\ Len(seriesItems) > 0

\* A request of the last cycle was rejected, and not by an abort.
Rejected(d) ==
    Latest.req[d].state = "rejected" /\ Latest.req[d].error # "AbortError"

\* C8: when a request of the current cycle is rejected otherwise than by
\* cancellation, the cycle fails as a whole: both lists are empty and both
\* totals 0, whatever the other request did.
C8_FailsAsUnit ==
    (revision = "abort" /\ nStarted >= 1 /\ microtasks = <<>>
       /\ \E d \in DocTypes : Rejected(d)) =>
        /\ Latest.outcome = "failed"
        /\ seriesItems = <<>> /\ episodeItems = <<>>
        /\ counts = Zero

\* After a cycle that committed, the media request of the next cycle was
\* rejected and its playlist request fulfilled.
C8_Witness ==
    /\ revision = "abort" /\ nStarted >= 2 /\ microtasks = <<>>
    /\ cycles[nStarted - 1].outcome = "committed"
    /\ Rejected("media")
    /\ Latest.req["playlist"].state = "fulfilled"

\* A request of the last cycle was answered with a status that is not 2xx.
NonOk(d) ==
    Latest.req[d].state # "pending" /\ Latest.req[d].status # 0
    /\ ~(Latest.req[d].status \in 200..299)

\* C9: a response that is not 2xx to a request of the current cycle fails the
\* cycle: both lists are empty and both totals 0.
C9_NonOkFailsCycle ==
    (revision = "abort" /\ nStarted >= 1 /\ microtasks = <<>>
       /\ Latest.outcome # "none" /\ \E d \in DocTypes : NonOk(d)) =>
        /\ seriesItems = <<>> /\ episodeItems = <<>>
        /\ counts = Zero

\* C10: loading is true as long as the cycle started last has not settled.
C10_LoadingUntilSettled ==
    (revision = "abort" /\ nStarted >= 1 /\ Latest.outcome = "none") => loading

TypeOK ==
    /\ q \in Queries /\ debouncedQ \in Queries
    /\ timer \in {NoTimer} \cup 0..DebounceDelay
    /\ nStarted <= MaxCycles
    /\ Len(microtasks) <= 1

\* The continuation of cycle c runs in this step.
Settles(c) == cycles[c].outcome = "none" /\ cycles'[c].outcome # "none"

\* The results of the two requests of a cycle, as the commit stores them.
ResultsOfCycle(cy) ==
    << [ series |-> cy.req["playlist"].total, episodes |-> cy.req["media"].total ],
       cy.req["playlist"].mapped, cy.req["media"].mapped >>

C12_NoRetry ==
    [][ /\ (nStarted >= 1 /\ nStarted' # nStarted) =>
              (debouncedQ' # debouncedQ \/ filters' # filters)
        /\ (nStarted >= 1 /\ microtasks = <<>> /\ Latest.outcome = "failed"
               /\ debouncedQ' = debouncedQ /\ filters' = filters) =>
              /\ held = << Zero, <<>>, <<>> >>
              /\ held' = held
              /\ nStarted' = nStarted
              /\ \A c \in 1..nStarted : \A d \in DocTypes :
                    cycles'[c].req[d].state = "pending" =>
                        cycles[c].req[d].state = "pending" ]_vars

\* The cycle that followed a committed one has failed, both its requests have
\* settled, and the time of a debounce window has passed with no mutation.
C12_Witness ==
    /\ revision = "abort" /\ nStarted >= 2 /\ Quiescent
    /\ cycles[nStarted - 1].outcome = "committed"
    /\ Latest.outcome = "failed"
    /\ timer = NoTimer /\ sinceQ = DebounceDelay /\ q = debouncedQ
    /\ held = << Zero, <<>>, <<>> >>

\* The lists held are the records, in the order of the response, of one
\* playlist request and of the media request for the same term and filters.
FromOnePair ==
    \E x \in Queries, e \in Engines, l \in Languages, t \in TagLists :
       /\ \A i \in 1..Len(seriesItems) :
             /\ seriesItems[i].raw.id = << Url("playlist", Trim(x), e, l, t), i >>
             /\ seriesItems[i].kind = "series"
       /\ \A i \in 1..Len(episodeItems) :
             /\ episodeItems[i].raw.id = << Url("media", Trim(x), e, l, t), i >>
             /\ episodeItems[i].kind = "episode"

\* C13: the two lists and the two totals held come from one cycle, or are all
\* empty and zero.  They change only when the continuation of a cycle runs, and
\* then all together: to exactly the ordered records and the totals of its two
\* responses when it commits, to empty lists and zero totals when it fails.
C13_ReplacedWholesale ==
    /\ [](revision = "abort" =>
            /\ FromOnePair
            /\ (nStarted >= 1 /\ Latest.outcome = "committed") =>
                   held = ResultsOfCycle(Latest))
    /\ [][ held' # held =>
             \E c \in 1..nStarted :
                /\ Settles(c)
                /\ \/ /\ cycles'[c].outcome = "committed"
                      /\ cycles[c].all = "fulfilled"
                      /\ held' = ResultsOfCycle(cycles[c])
                   \/ /\ cycles'[c].outcome = "failed"
                      /\ held' = << Zero, <<>>, <<>> >> ]_vars

\* A second cycle committed after the first had committed: what is held is
\* the response pair of the second alone, one list with records and one empty.
C13_Witness ==
    /\ revision = "abort" /\ nStarted = 2 /\ microtasks = <<>>
    /\ cycles[1].outcome = "committed" /\ Latest.outcome = "committed"
    /\ Len(seriesItems) = MaxRecords /\ episodeItems = <<>>
    /\ counts = [ series |-> MaxRecords + 1, episodes |-> 0 ]
    /\ seriesItems[1].raw.id[1] = Latest.url["playlist"]

\* C14: the data of the dialog is the raw record of the card clicked last.  It
\* changes only by a click on a card, which stores the raw record of that card
\* and opens the dialog; closing changes the open flag and nothing else; a step
\* of a fetch cycle (its start, a response, its commit or its failure) changes
\* neither the data nor the flag; and an open dialog has data.
C14_DialogDataIsLastClicked ==
    /\ [](dialogOpen => dialogData # <<>>)
    /\ [][ /\ (dialogData' # dialogData \/ (~dialogOpen /\ dialogOpen')) =>
                 /\ ~dialogOpen /\ dialogOpen'
                 /\ \E i \in 1..Len(visible) : dialogData' = << visible[i].raw >>
                 /\ cycles' = cycles /\ held' = held
           /\ (dialogOpen /\ ~dialogOpen') =>
                 UNCHANGED << revision, q, debouncedQ, timer, engine, language, tags,
                              tab, loading, counts, seriesItems, episodeItems,
                              abortRef, cycles, microtasks, errorLog, sinceQ,
                              dialogData, items, seqCurrent, seqHeld >>
           /\ (cycles' # cycles \/ held' # held) =>
                 (dialogData' = dialogData /\ dialogOpen' = dialogOpen) ]_vars

\* A card of the first listing was clicked after the engine had been changed;
\* the cycle for the new engine then failed and cleared the lists while the
\* dialog was open, and the dialog was closed: its data is still that record.
C14_Witness ==
    /\ revision = "abort" /\ nStarted = 2 /\ microtasks = <<>>
    /\ Latest.outcome = "failed" /\ seriesItems = <<>> /\ episodeItems = <<>>
    /\ ~dialogOpen /\ dialogData # <<>>
    /\ dialogData[1].id[1].engine = "al" /\ engine = "es"

\* What the code holds, in the shape of the sequence-number model.
CodeHeld ==
    [ counts |-> counts, seriesItems |-> seriesItems, episodeItems |-> episodeItems ]

\* C15: the code refines the sequence-number model that runs beside it on the
\* same mutations and responses.  The continuation of a cycle changes the lists
\* and totals of the code (it commits or clears) exactly when the number of the
\* cycle is the current one, that is when the model applies the settlement;
\* and in every state the code and the model hold the same lists and totals.
C15_RefinesSequenceModel ==
    /\ [](revision = "abort" => seqCurrent = nStarted /\ seqHeld = CodeHeld)
    /\ [][ \A c \in 1..nStarted :
               Settles(c) =>
                  /\ (cycles'[c].outcome \in {"committed", "failed"}) <=> SeqApplies(c)
                  /\ (~SeqApplies(c) => held' = held /\ seqHeld' = seqHeld)
                  /\ seqHeld' = CodeHeld' ]_vars

\* The settlement of a superseded cycle was dropped by the code and by the
\* model (its number was no longer the current one), and the settlement of
\* the current cycle was applied by both.
C15_Witness ==
    /\ revision = "abort" /\ nStarted = 2 /\ seqCurrent = 2 /\ microtasks = <<>>
    /\ cycles[1].outcome = "aborted" /\ Latest.outcome = "committed"
    /\ seqHeld = CodeHeld
    /\ Len(seqHeld.seriesItems) > 0 /\ seqHeld.counts["episodes"] > 0

\* C16: if from some point on neither the query nor a filter changes, then
\* from some point on no request is outstanding, no continuation is waiting
\* and loading is false.
C16_EventuallyQuiet ==
    (<>[][q' = q /\ filters' = filters]_vars) =>
        <>[](nStarted >= 1 /\ Quiescent /\ ~loading)

\* Every cycle the bound allows was started, one of them after a change of
\* the query, the last one while its predecessor was in flight; all requests
\* have settled, the timeout is over and loading is false.
C16_Witness ==
    /\ revision = "abort" /\ nStarted = MaxCycles /\ Quiescent /\ ~loading
    /\ cycles[nStarted - 1].outcome = "aborted"
    /\ Latest.outcome = "committed"
    /\ timer = NoTimer /\ debouncedQ = <<"a">>

\* C17: in the revision without a controller, the continuation of a cycle
\* that is no longer the one started last changes neither the lists nor the
\* totals.
C17_OnlyLatestCommits ==
    [][ \A c \in 1..nStarted :
          (revision = "noabort" /\ c < nStarted /\ Settles(c)) => held' = held ]_vars

\* C18: in the single-list revision a change of tab issues no request and
\* changes no counts: it changes the tab, and so which of the items held are
\* rendered, and nothing else.
C18_SingleSetTabOnlyTab ==
    [][ (revision = "single" /\ tab' # tab) =>
          /\ nStarted' = nStarted
          /\ counts' = counts
          /\ items' = items
          /\ loading' = loading ]_vars

\* What a cycle asks the service for: the trimmed term and the filters.
Asked(cy) == << cy.qv, cy.engine, cy.language, cy.tags >>

\* C19: no cycle is started for the trimmed term, engine, network and tags of
\* the cycle started just before it.
C19_NoDuplicateCycles ==
    [][ (revision = "abort" /\ nStarted >= 1 /\ nStarted' = nStarted + 1) =>
          Asked(cycles'[nStarted']) # Asked(Latest) ]_vars

====
